---- MODULE Spec2Model ----
(***************************************************************************)
(* TSDF volumetric fusion (fusion.py): the TSDFVolume value type, its      *)
(* initialize / integrate / extract_mesh operations and the SE(3) helpers. *)
(*                                                                         *)
(* Numbers.  Lengths (voxel_scale, truncation_distance, depths, pose       *)
(* translations) are integers in one length unit; voxel_scale is even so   *)
(* that voxel centres are integers.  Floating-point expressions are        *)
(* evaluated as exact rationals (numerator / denominator kept apart) and   *)
(* every float -> integer cast truncates toward zero as numpy's astype     *)
(* does; IEEE rounding of the intermediate floats is not modelled.         *)
(* Fixed-width integer arrays keep their width: int16 arithmetic wraps     *)
(* modulo 2^16, and a float -> int cast of a value outside the target      *)
(* type is undefined in C, so its outcome is a nondeterministic choice.    *)
(***************************************************************************)
EXTENDS Integers, Sequences, FiniteSets, TLC

VARIABLES heap, volume, snapshot, frame, depth_in, outcome, mesh, nframes

vars == <<heap, volume, snapshot, frame, depth_in, outcome, mesh, nframes>>

(***************************************************************************)
(* Global constants (fusion.py lines 13-15).                               *)
(***************************************************************************)
SHORTMAX == 32767

\* 0.0000305185 written as mant * 10^-exp
DIVSHORTMAX == [mant |-> 305185, exp |-> 10]

MAX_WEIGHT == 128

(***************************************************************************)
(* Bounds of the model.                                                    *)
(***************************************************************************)
\* integrate calls in a behaviour of Spec
MaxFrames == 2

\* integrate calls in a behaviour of SpecLong (beyond weight saturation)
LongFrames == 130

(***************************************************************************)
(* Integer helpers.                                                        *)
(***************************************************************************)
Min(a, b) == IF a <= b THEN a ELSE b

\* floor(n / d) and ceil(n / d) for d > 0
FloorDiv(n, d) == IF n >= 0 THEN n \div d ELSE -((-n + d - 1) \div d)

CeilDiv(n, d) == -FloorDiv(-n, d)

\* numpy's float -> integer astype on an in-range value: toward zero
TruncDiv(n, d) == IF n >= 0 THEN n \div d ELSE -((-n) \div d)

\* np.around of the rational n / d (d > 0): round half to even
NpAround(n, d) ==
    LET q == FloorDiv(n, d)
        r == n - q * d
    IN  IF 2 * r < d THEN q
        ELSE IF 2 * r > d THEN q + 1
        ELSE IF q % 2 = 0 THEN q ELSE q + 1

\* two's-complement wrap of an integer to int16 (numpy int16 arithmetic)
WrapInt16(x) == ((x + 32768) % 65536) - 32768

\* wrap of an integer to uint8
WrapUint8(x) == x % 256

(***************************************************************************)
(* Geometry: voxel grid, world coordinates, SE(3) helpers, projection.     *)
(***************************************************************************)
\* np.indices(volume_size): every grid coordinate exactly once
VoxCoords(size) ==
    {<<i, j, k>> : i \in 0..(size[1] - 1), j \in 0..(size[2] - 1), k \in 0..(size[3] - 1)}

\* TSDFVolume.center_point: -0.5 * voxel_scale * volume_size
CenterPoint(cfg) ==
    <<-((cfg.voxel_scale * cfg.volume_size[1]) \div 2),
      -((cfg.voxel_scale * cfg.volume_size[2]) \div 2),
      -((cfg.voxel_scale * cfg.volume_size[3]) \div 2)>>

\* (vox_coords + 0.5) * voxel_scale + center_point
WorldPt(cfg, v) ==
    LET o == CenterPoint(cfg)
    IN  <<(((2 * v[1] + 1) * cfg.voxel_scale) \div 2) + o[1],
          (((2 * v[2] + 1) * cfg.voxel_scale) \div 2) + o[2],
          (((2 * v[3] + 1) * cfg.voxel_scale) \div 2) + o[3]>>

Transpose(R) ==
    <<<<R[1][1], R[2][1], R[3][1]>>,
      <<R[1][2], R[2][2], R[3][2]>>,
      <<R[1][3], R[2][3], R[3][3]>>>>

MatVec(R, p) ==
    <<R[1][1] * p[1] + R[1][2] * p[2] + R[1][3] * p[3],
      R[2][1] * p[1] + R[2][2] * p[2] + R[2][3] * p[3],
      R[3][1] * p[1] + R[3][2] * p[2] + R[3][3] * p[3]>>

\* se3_inverse: [R^T, -R^T t]
Se3Inverse(se3) ==
    LET tr == Transpose(se3.R)
        m == MatVec(tr, se3.t)
    IN  [shape |-> se3.shape, R |-> tr, t |-> <<-m[1], -m[2], -m[3]>>]

\* se3_transform of one point: R p + t
Se3Transform(p, se3) ==
    LET m == MatVec(se3.R, p)
    IN  <<m[1] + se3.t[1], m[2] + se3.t[2], m[3] + se3.t[3]>>

\* cam_pts of voxel v; pose is the already inverted pose handed to _integrate
CamPt(cfg, v, pose) == Se3Transform(WorldPt(cfg, v), pose)

\* mask = cam_pts[:, 2] > 0, for the camera-space point c of a voxel
FrontMask(c) == c[3] > 0

\* pix_x: -1 unless in front, else around(x / z * fx + cx)
PixX(intr, c) ==
    IF FrontMask(c) THEN NpAround(c[1] * intr.fx + intr.cx * c[3], c[3]) ELSE -1

\* pix_y: -1 unless in front, else around(y / z * fy + cy)
PixY(intr, c) ==
    IF FrontMask(c) THEN NpAround(c[2] * intr.fy + intr.cy * c[3], c[3]) ELSE -1

\* mask &= pixel inside the view frustum
FrustumMask(intr, c, pix_x, pix_y) ==
    /\ FrontMask(c)
    /\ pix_x >= 0
    /\ pix_x < intr.width
    /\ pix_y >= 0
    /\ pix_y < intr.height

\* depth_val: zeros, overwritten by the sampled depth where the mask holds
DepthVal(mask, pix_x, pix_y, depth_im) ==
    IF mask THEN depth_im.data[<<pix_y, pix_x>>] ELSE 0

\* sdf = depth_val - cam_pts[:, 2]
Sdf(depth_val, c) == depth_val - c[3]

\* faulty variant: the voxel on the truncation boundary is dropped
IsValidPtStrict(depth_val, sdf, truncation_distance) ==
    /\ depth_val > 0
    /\ sdf > -truncation_distance

\* valid_pts = (depth_val > 0) & (sdf >= -truncation_distance)
IsValidPt(depth_val, sdf, truncation_distance) ==
    /\ depth_val > 0
    /\ sdf >= -truncation_distance

\* lines 161-187 of _integrate for one voxel v of self: its pixel, sampled depth,
\* sdf and validity under the (inverted) pose and the depth image
Observe(self, v, pose, depth_im) ==
    LET c == CamPt(self.config, v, pose)
        px == PixX(self.camera_params, c)
        py == PixY(self.camera_params, c)
        dv == DepthVal(FrustumMask(self.camera_params, c, px, py), px, py, depth_im)
        sd == Sdf(dv, c)
    IN  [cam_pt |-> c, pix_x |-> px, pix_y |-> py, depth_val |-> dv, sdf |-> sd,
         valid |-> IsValidPt(dv, sd, self.config.truncation_distance)]

\* faulty variant: the positive side is not clamped to 1
TsdfNoClamp(sdf, truncation_distance) == [num |-> sdf, den |-> truncation_distance]

\* tsdf = np.minimum(1.0, sdf / truncation_distance), as num / den
Tsdf(sdf, truncation_distance) ==
    [num |-> Min(truncation_distance, sdf), den |-> truncation_distance]

(***************************************************************************)
(* The 16-bit scaled distance: decode, running average, re-encode.         *)
(***************************************************************************)
\* 10^exp - mant * SHORTMAX for exp = 10, in 32-bit pieces: DIVSHORTMAX * SHORTMAX
\* is 1 - DecodeLoss * 10^-10, slightly below 1
DecodeLoss ==
    1000 * (10000000 - (DIVSHORTMAX.mant \div 1000) * SHORTMAX)
        - (DIVSHORTMAX.mant % 1000) * SHORTMAX

\* floor(k * DecodeLoss / 10^10), k split in two limbs to stay within 32 bits
FloorLoss(k) ==
    LET k1 == FloorDiv(k, 10000)
        k0 == k - k1 * 10000
    IN  FloorDiv(k1 * DecodeLoss + FloorDiv(k0 * DecodeLoss, 10000), 1000000)

CeilLoss(k) == -FloorLoss(-k)

\* ((w_old * tsdf_vals + obs_weight * tsdf_new) / (w_old + obs_weight)) * SHORTMAX
\* with tsdf_vals = s_old * DIVSHORTMAX and tsdf_new = t.num / t.den, truncated
\* toward zero; the unbounded integer the float -> int16 cast is applied to.
\*   value = (P - eps) / Q,  P = w s den + num SHORTMAX,  Q = den (w + 1),
\*   eps = w s den DecodeLoss / 10^10
TsdfVolNewRaw(w_old, s_old, t) ==
    LET k == w_old * s_old * t.den
        P == k + t.num * SHORTMAX
        Q == t.den * (w_old + 1)
    IN  IF P - CeilLoss(k) >= 0
        THEN FloorDiv(P - CeilLoss(k), Q)
        ELSE CeilDiv(P - FloorLoss(k), Q)

\* outcomes of a float -> integer cast of a value the target type cannot hold
UBCasts == {"wrap", "saturate"}

\* .astype(np.int16) of the (already truncated) value x
AstypeInt16(x, ub) ==
    IF x >= -32768 /\ x <= 32767 THEN x
    ELSE IF ub = "wrap" THEN WrapInt16(x)
    ELSE IF x < 0 THEN -32768 ELSE 32767

\* .astype(np.uint8) of the (already truncated) value x
AstypeUint8(x, ub) ==
    IF x >= 0 /\ x <= 255 THEN x
    ELSE IF ub = "wrap" THEN WrapUint8(x)
    ELSE IF x < 0 THEN 0 ELSE 255

\* np.clip(x, a_min, a_max)
NpClip(x, a_min, a_max) == IF x < a_min THEN a_min ELSE IF x > a_max THEN a_max ELSE x

\* tsdf_vol_new: the new stored distance of a valid voxel
TsdfVolNew(w_old, s_old, t, ub) ==
    NpClip(AstypeInt16(TsdfVolNewRaw(w_old, s_old, t), ub), -SHORTMAX, SHORTMAX)

\* faulty variant: the weight is not capped
WNewNoCap(w_old) == w_old + 1

\* faulty variant: the observation weight is not added
WNewKeep(w_old) == Min(w_old, MAX_WEIGHT)

\* w_new = np.minimum(w_old + obs_weight, MAX_WEIGHT)
WNew(w_old) == Min(w_old + 1, MAX_WEIGHT)

\* w_old * color_old + obs_weight * c: int16 * uint8 + uint8, held in int16
ColorSum(w_old, c_old, c) == WrapInt16(WrapInt16(w_old * c_old) + c)

\* (sum / (w_old + obs_weight)).astype(np.uint8): one channel of a valid voxel
ColorNew(w_old, c_old, c, ub) ==
    AstypeUint8(TruncDiv(ColorSum(w_old, c_old, c), w_old + 1), ub)

(***************************************************************************)
(* TSDFVolume: the three arrays live in a heap of numpy arrays; a volume   *)
(* (a frozen dataclass) holds references to them.                          *)
(***************************************************************************)
ArrayIds == 0..5

NoArray == <<>>

\* ids of the three arrays a call of _integrate allocates: those self does not use
FreshIds(self) ==
    IF self.tsdf_volume < 3
    THEN [tsdf_volume |-> 3, weight_volume |-> 4, color_volume |-> 5]
    ELSE [tsdf_volume |-> 0, weight_volume |-> 1, color_volume |-> 2]

\* TSDFVolume.initialize: the heap holding np.ones / np.zeros / np.zeros
InitializeHeap(config) ==
    [a \in ArrayIds |->
        IF a = 0 THEN [v \in VoxCoords(config.volume_size) |-> 1]
        ELSE IF a = 1 THEN [v \in VoxCoords(config.volume_size) |-> 0]
        ELSE IF a = 2 THEN [v \in VoxCoords(config.volume_size) |-> <<0, 0, 0>>]
        ELSE NoArray]

\* TSDFVolume.initialize: the returned dataclass
Initialize(camera_params, config) ==
    [camera_params |-> camera_params,
     config |-> config,
     tsdf_volume |-> 0,
     weight_volume |-> 1,
     color_volume |-> 2]

\* faulty variant: the new array aliases the array of self instead of copying it
NpCopyAlias(src, fresh) == src

\* np.copy(src): the id of the array that receives the copy
NpCopy(src, fresh) == fresh

\* faulty variant: a sample equal to the cutoff is kept
CutoffDepthStrict(depth_im, cutoff) ==
    [depth_im EXCEPT !.data = [p \in DOMAIN depth_im.data |->
                                  IF depth_im.data[p] > cutoff THEN 0 ELSE depth_im.data[p]]]

\* depth_im[depth_im >= depth_cutoff_distance] = 0.0 (in place)
CutoffDepth(depth_im, cutoff) ==
    [depth_im EXCEPT !.data = [p \in DOMAIN depth_im.data |->
                                  IF depth_im.data[p] >= cutoff THEN 0 ELSE depth_im.data[p]]]

\* the sanity checks of integrate, in order: "ok" or the exception raised
PoseShapeOk(pose) == pose.shape = <<4, 4>>

ImShapesAgree(color_im, depth_im) == color_im.shape = depth_im.shape

\* faulty variant: only the width of the depth image is compared
DepthMatchesCameraWidthOnly(depth_im, intr) == ~(depth_im.shape[2] # intr.width)

DepthMatchesCamera(depth_im, intr) ==
    ~(depth_im.shape[1] # intr.height \/ depth_im.shape[2] # intr.width)

SanityCheck(self, f) ==
    IF ~PoseShapeOk(f.pose) THEN "AssertionError"
    ELSE IF ~ImShapesAgree(f.color_im, f.depth_im) THEN "AssertionError"
    ELSE IF ~DepthMatchesCamera(f.depth_im, self.camera_params) THEN "ValueError"
    ELSE "ok"

\* the three new arrays _integrate writes, from self's arrays in heap h
NewTsdf(h, self, pose, f, ub) ==
    [v \in VoxCoords(self.config.volume_size) |->
        LET o == Observe(self, v, pose, f.depth_im)
        IN  IF o.valid
            THEN TsdfVolNew(h[self.weight_volume][v], h[self.tsdf_volume][v],
                            Tsdf(o.sdf, self.config.truncation_distance), ub)
            ELSE h[self.tsdf_volume][v]]

NewWeight(h, self, pose, f) ==
    [v \in VoxCoords(self.config.volume_size) |->
        IF Observe(self, v, pose, f.depth_im).valid
        THEN WNew(h[self.weight_volume][v])
        ELSE h[self.weight_volume][v]]

NewColor(h, self, pose, f, ub) ==
    [v \in VoxCoords(self.config.volume_size) |->
        LET o == Observe(self, v, pose, f.depth_im)
        IN  IF o.valid
            THEN LET w_old == h[self.weight_volume][v]
                     c_old == h[self.color_volume][v]
                     c_im == f.color_im.data[<<o.pix_y, o.pix_x>>]
                 IN  <<ColorNew(w_old, c_old[1], c_im[1], ub),
                       ColorNew(w_old, c_old[2], c_im[2], ub),
                       ColorNew(w_old, c_old[3], c_im[3], ub)>>
            ELSE h[self.color_volume][v]]

\* extract_mesh: the narrow-band mask handed to marching_cubes,
\* -0.5 < s * DIVSHORTMAX < 0.5, i.e. |s * mant / 5| < 10^9
InNarrowBand(s) ==
    LET m == s * (DIVSHORTMAX.mant \div 5)
    IN  m > -1000000000 /\ m < 1000000000

NarrowBandMask(tsdf_volume) == {v \in DOMAIN tsdf_volume : InNarrowBand(tsdf_volume[v])}

(***************************************************************************)
(* Inputs: cameras, configurations and RGB-D frames the caller supplies.   *)
(***************************************************************************)
Camera == [width |-> 2, height |-> 1, fx |-> 1, fy |-> 1, cx |-> 1, cy |-> 0]

\* a single voxel centred at the world origin
ConfigOne ==
    [volume_size |-> <<1, 1, 1>>, voxel_scale |-> 2,
     truncation_distance |-> 2, depth_cutoff_distance |-> 6]

\* 2 x 1 x 2 voxels with centres at x, z = -1, +1
ConfigGrid ==
    [volume_size |-> <<2, 1, 2>>, voxel_scale |-> 2,
     truncation_distance |-> 1, depth_cutoff_distance |-> 6]

Configs == {ConfigOne, ConfigGrid}

IdentityR == <<<<1, 0, 0>>, <<0, 1, 0>>, <<0, 0, 1>>>>

\* camera at the world origin looking along +z
PoseIdentity == [shape |-> <<4, 4>>, R |-> IdentityR, t |-> <<0, 0, 0>>]

\* camera moved back to z = -3
PoseBack == [shape |-> <<4, 4>>, R |-> IdentityR, t |-> <<0, 0, -3>>]

\* camera at x = -3 looking along +x (a quarter turn about y)
PoseSide ==
    [shape |-> <<4, 4>>,
     R |-> <<<<0, 0, 1>>, <<0, 1, 0>>, <<-1, 0, 0>>>>,
     t |-> <<-3, 0, 0>>]

\* a 3 x 4 matrix handed in as pose
PoseBadShape == [PoseIdentity EXCEPT !.shape = <<3, 4>>]

Poses == {PoseIdentity, PoseBack, PoseSide}

Pixels(shape) == {<<r, c>> : r \in 0..(shape[1] - 1), c \in 0..(shape[2] - 1)}

\* an image of the given shape with value left in column 0 and right elsewhere
Image(shape, left, right) ==
    [shape |-> shape, data |-> [p \in Pixels(shape) |-> IF p[2] = 0 THEN left ELSE right]]

\* depth samples: in front of, at or behind a surface; 0 is "no measurement"
\* and 6 is the depth cutoff of the configurations
DepthIms ==
    {Image(<<1, 2>>, l, r) : l \in {1, 3}, r \in {1, 3}}
        \cup {Image(<<1, 2>>, 0, 0), Image(<<1, 2>>, 6, 6), Image(<<1, 2>>, 0, 6),
              Image(<<1, 2>>, 6, 1), Image(<<1, 2>>, 3, 0)}

ColorIms ==
    {Image(<<1, 2>>, <<255, 255, 255>>, <<255, 255, 255>>),
     Image(<<1, 2>>, <<200, 100, 50>>, <<10, 20, 255>>)}

GoodFrames ==
    {[color_im |-> c, depth_im |-> d, pose |-> p] : c \in ColorIms, d \in DepthIms, p \in Poses}

\* frames violating one or more of the sanity checks
BadFrames ==
    {[color_im |-> Image(<<1, 2>>, <<0, 0, 0>>, <<0, 0, 0>>),
      depth_im |-> Image(<<1, 2>>, 1, 1), pose |-> PoseBadShape],
     [color_im |-> Image(<<2, 2>>, <<0, 0, 0>>, <<0, 0, 0>>),
      depth_im |-> Image(<<1, 2>>, 1, 1), pose |-> PoseBack],
     [color_im |-> Image(<<2, 2>>, <<0, 0, 0>>, <<0, 0, 0>>),
      depth_im |-> Image(<<2, 2>>, 1, 1), pose |-> PoseBack],
     [color_im |-> Image(<<1, 3>>, <<0, 0, 0>>, <<0, 0, 0>>),
      depth_im |-> Image(<<1, 3>>, 1, 1), pose |-> PoseBack],
     [color_im |-> Image(<<2, 2>>, <<0, 0, 0>>, <<0, 0, 0>>),
      depth_im |-> Image(<<2, 2>>, 1, 1), pose |-> PoseBadShape]}

Frames == GoodFrames \cup BadFrames

\* the caller's buffers before the first call
NoFrame ==
    [color_im |-> Image(<<0, 0>>, <<0, 0, 0>>, <<0, 0, 0>>),
     depth_im |-> Image(<<0, 0>>, 0, 0), pose |-> PoseIdentity]

NoMesh == [extracted |-> FALSE, mask |-> {}]

(***************************************************************************)
(* State machine.                                                          *)
(*   heap      the numpy arrays                                            *)
(*   volume    the TSDFVolume the caller holds (the latest snapshot)       *)
(*   snapshot  the TSDFVolume the last successful integrate was called on  *)
(*   frame     the caller's color_im / depth_im / pose buffers after the   *)
(*             last integrate call (depth_im is mutated by the call)       *)
(*   depth_in  the depth image as it was handed to that call               *)
(*   outcome   how the last integrate call ended                           *)
(*   mesh      the narrow-band mask of the last extract_mesh call          *)
(*   nframes   number of integrate calls made                              *)
(***************************************************************************)
InitWith(config) ==
    /\ heap = InitializeHeap(config)
    /\ volume = Initialize(Camera, config)
    /\ snapshot = Initialize(Camera, config)
    /\ frame = NoFrame
    /\ depth_in = NoFrame.depth_im
    /\ outcome = "initialized"
    /\ mesh = NoMesh
    /\ nframes = 0

Init == \E config \in Configs : InitWith(config)

\* TSDFVolume.integrate (with _integrate) on the caller's volume with frame f;
\* the caller keeps the returned volume and the one it called integrate on
IntegrateFrame(f, ub) ==
    LET self == volume
        fresh == FreshIds(self)
        tid == NpCopy(self.tsdf_volume, fresh.tsdf_volume)
        wid == NpCopy(self.weight_volume, fresh.weight_volume)
        cid == NpCopy(self.color_volume, fresh.color_volume)
        cut == [f EXCEPT !.depth_im = CutoffDepth(f.depth_im, self.config.depth_cutoff_distance)]
        pose == Se3Inverse(f.pose)
    IN  /\ nframes' = nframes + 1
        /\ depth_in' = f.depth_im
        /\ outcome' = SanityCheck(self, f)
        /\ UNCHANGED mesh
        /\ IF SanityCheck(self, f) # "ok"
           THEN /\ frame' = f
                /\ UNCHANGED <<heap, volume, snapshot>>
           ELSE /\ frame' = cut
                /\ heap' = [a \in ArrayIds |->
                              IF a = tid THEN NewTsdf(heap, self, pose, cut, ub)
                              ELSE IF a = wid THEN NewWeight(heap, self, pose, cut)
                              ELSE IF a = cid THEN NewColor(heap, self, pose, cut, ub)
                              ELSE heap[a]]
                /\ volume' = [self EXCEPT !.tsdf_volume = tid,
                                          !.weight_volume = wid,
                                          !.color_volume = cid]
                /\ snapshot' = self

Integrate ==
    /\ nframes < MaxFrames
    /\ \E f \in Frames, ub \in UBCasts : IntegrateFrame(f, ub)

\* TSDFVolume.extract_mesh on the caller's volume
ExtractMesh ==
    /\ mesh' = [extracted |-> TRUE, mask |-> NarrowBandMask(heap[volume.tsdf_volume])]
    /\ UNCHANGED <<heap, volume, snapshot, frame, depth_in, outcome, nframes>>

Next == Integrate \/ ExtractMesh

Spec == Init /\ [][Next]_vars

(***************************************************************************)
(* Long runs: one voxel observed again and again, past weight saturation.  *)
(***************************************************************************)
\* ConfigGrid seen from PoseBack: the near voxel in view lies at depth 2 behind
\* pixel (0, 0), the two far voxels at depth 4 behind pixel (0, 1), the fourth
\* voxel projects outside the image.  Depth (5, 3) gives sdf 3 (tsdf clamped to
\* 1) and sdf -1 (tsdf -1); the other frame carries no usable depth.
LongFrameSet ==
    {[color_im |-> Image(<<1, 2>>, <<255, 255, 255>>, <<255, 255, 255>>),
      depth_im |-> Image(<<1, 2>>, 5, 3), pose |-> PoseBack],
     [color_im |-> Image(<<1, 2>>, <<255, 255, 255>>, <<255, 255, 255>>),
      depth_im |-> Image(<<1, 2>>, 0, 6), pose |-> PoseBack]}

InitLong == InitWith(ConfigGrid)

IntegrateLong ==
    /\ nframes < LongFrames
    /\ \E f \in LongFrameSet, ub \in UBCasts : IntegrateFrame(f, ub)

NextLong == IntegrateLong \/ ExtractMesh

SpecLong == InitLong /\ [][NextLong]_vars

(***************************************************************************)
(* Properties.  After a successful integrate call, snapshot is the volume  *)
(* the call was made on, volume the one it returned and frame the frame it *)
(* used, so the effect of the call can be read off a single state.         *)
(***************************************************************************)
Vox == VoxCoords(volume.config.volume_size)

Succeeded == outcome = "ok"

OldTsdf(v) == heap[snapshot.tsdf_volume][v]

OldWeight(v) == heap[snapshot.weight_volume][v]

OldColor(v) == heap[snapshot.color_volume][v]

CurTsdf(v) == heap[volume.tsdf_volume][v]

CurWeight(v) == heap[volume.weight_volume][v]

CurColor(v) == heap[volume.color_volume][v]

\* what the last call computed for voxel v
LastObs(v) == Observe(snapshot, v, Se3Inverse(frame.pose), frame.depth_im)

SameVoxel(v) ==
    /\ CurTsdf(v) = OldTsdf(v)
    /\ CurWeight(v) = OldWeight(v)
    /\ CurColor(v) = OldColor(v)

\* C1: every weight lies in 0..128, and an integrate call never lowers a weight:
\* a valid voxel gains exactly 1 below 128 and stays at 128 once saturated, an
\* invalid voxel keeps its weight.
C1_WeightBounds ==
    /\ \A v \in Vox : CurWeight(v) >= 0 /\ CurWeight(v) <= 128
    /\ Succeeded =>
         \A v \in Vox :
            /\ CurWeight(v) >= OldWeight(v)
            /\ (LastObs(v).valid /\ OldWeight(v) < 128) => CurWeight(v) = OldWeight(v) + 1
            /\ (LastObs(v).valid /\ OldWeight(v) = 128) => CurWeight(v) = 128
            /\ ~LastObs(v).valid => CurWeight(v) = OldWeight(v)

\* a saturated voxel observed once more, next to a voxel the frame left alone
C1_Witness ==
    /\ Succeeded
    /\ \E v \in Vox : LastObs(v).valid /\ OldWeight(v) = 128 /\ CurWeight(v) = 128
    /\ \E v \in Vox : ~LastObs(v).valid /\ CurWeight(v) = OldWeight(v)

\* C2: every stored distance lies in -32767..32767; for a valid voxel the frame's
\* tsdf lies in [-1, 1] and the re-encoded running average already lies in
\* -32767..32767 before the int16 cast and the clamp, so nothing wraps.
C2_DistanceBounds ==
    /\ \A v \in Vox : CurTsdf(v) >= -32767 /\ CurTsdf(v) <= 32767
    /\ Succeeded =>
         \A v \in Vox :
            LastObs(v).valid =>
               LET t == Tsdf(LastObs(v).sdf, snapshot.config.truncation_distance)
                   raw == TsdfVolNewRaw(OldWeight(v), OldTsdf(v), t)
               IN  /\ -t.den <= t.num /\ t.num <= t.den
                   /\ raw >= -32767 /\ raw <= 32767
                   /\ CurTsdf(v) = raw

\* a saturated voxel whose sdf exceeds the truncation distance (tsdf clamped to 1)
\* together with a voxel on the validity boundary sdf = -truncation_distance
C2_Witness ==
    /\ Succeeded
    /\ \E v \in Vox : /\ LastObs(v).valid
                      /\ LastObs(v).sdf > snapshot.config.truncation_distance
                      /\ OldWeight(v) = 128
    /\ \E v \in Vox : /\ LastObs(v).valid
                      /\ LastObs(v).sdf = -snapshot.config.truncation_distance
                      /\ OldWeight(v) = 128
                      /\ CurTsdf(v) < -32000

\* the preconditions of integrate, as the specification states them
PoseIs4x4(f) == f.pose.shape = <<4, 4>>

SameHW(f) == f.color_im.shape = f.depth_im.shape

MatchesCamera(f, intr) == f.depth_im.shape = <<intr.height, intr.width>>

\* C3: an integrate call whose pose is not 4 x 4, whose colour and depth images
\* differ in H x W, or whose depth image has not the camera's height and width
\* ends in an error (the assertion failure for the first two, the ValueError for
\* the last), returns no volume and leaves every array as it was.
C3_AllOrNothing ==
    [][(nframes' = nframes + 1) =>
         /\ (~PoseIs4x4(frame') \/ ~SameHW(frame')) =>
               (outcome' = "AssertionError" /\ volume' = volume /\ heap' = heap)
         /\ (PoseIs4x4(frame') /\ SameHW(frame') /\ ~MatchesCamera(frame', volume.camera_params)) =>
               (outcome' = "ValueError" /\ volume' = volume /\ heap' = heap)]_vars

\* a call on an already integrated volume rejected for the size of its images
C3_Witness ==
    /\ outcome = "ValueError"
    /\ PoseIs4x4(frame) /\ SameHW(frame) /\ ~MatchesCamera(frame, volume.camera_params)
    /\ \E v \in Vox : CurWeight(v) > 0

\* every sample of the depth image handed in is 0 or at least the cutoff
NoEvidence ==
    \A p \in DOMAIN depth_in.data :
        depth_in.data[p] = 0 \/ depth_in.data[p] >= volume.config.depth_cutoff_distance

\* C4: integrating a correctly sized frame whose depth samples are all 0 or at
\* least the depth cutoff returns a volume equal, voxel for voxel, to the input.
C4_NoOpOnEmptyEvidence ==
    (Succeeded /\ NoEvidence) => \A v \in Vox : SameVoxel(v)

\* such a frame, with a sample at the cutoff, integrated into a volume that
\* already holds observations
C4_Witness ==
    /\ Succeeded
    /\ NoEvidence
    /\ \E p \in DOMAIN depth_in.data : depth_in.data[p] >= volume.config.depth_cutoff_distance
    /\ \E v \in Vox : OldWeight(v) > 0
    /\ \A v \in Vox : SameVoxel(v)

\* C5: the volume initialize returns holds distance 1.0, stored as 32767, weight 0
\* and colour (0, 0, 0) in every voxel, the three arrays having the volume's shape.
C5_InitialVolume ==
    (nframes = 0) =>
        /\ DOMAIN heap[volume.tsdf_volume] = Vox
        /\ DOMAIN heap[volume.weight_volume] = Vox
        /\ DOMAIN heap[volume.color_volume] = Vox
        /\ \A v \in Vox :
              /\ CurTsdf(v) = SHORTMAX
              /\ CurWeight(v) = 0
              /\ CurColor(v) = <<0, 0, 0>>

\* C6: the narrow-band mask extract_mesh computes for a never integrated volume
\* contains no voxel (so the extractor has nothing to triangulate).
C6_EmptyMesh == (mesh.extracted /\ nframes = 0) => mesh.mask = {}

\* the single voxel of a 1 x 1 x 1 volume
TheVoxel == <<0, 0, 0>>

FirstFrameOfSingleVoxel ==
    /\ volume.config.volume_size = <<1, 1, 1>>
    /\ nframes = 1
    /\ Succeeded

\* C7 as stated: a fresh 1 x 1 x 1 volume integrated once with the identity pose and
\* sdf = sampled depth - camera depth = 0 at its voxel ends with decoded distance 0
\* (within one encoding step) and weight 1.
C7_FirstObservationIdentity ==
    (/\ FirstFrameOfSingleVoxel
     /\ frame.pose = PoseIdentity
     /\ LastObs(TheVoxel).sdf = 0) =>
        /\ CurWeight(TheVoxel) = 1
        /\ CurTsdf(TheVoxel) >= -1 /\ CurTsdf(TheVoxel) <= 1

\* C7 amended: a fresh 1 x 1 x 1 volume integrated once with a frame in which its
\* voxel is valid with sdf = 0 (the pose puts the voxel at a positive camera depth
\* and the depth sample equals that depth) ends with stored distance 0 and weight
\* 1; under the identity pose the voxel lies at camera depth 0, is not valid and
\* stays as initialize left it, with weight 0.
C7_FirstObservation ==
    FirstFrameOfSingleVoxel =>
        /\ (LastObs(TheVoxel).valid /\ LastObs(TheVoxel).sdf = 0) =>
              (CurWeight(TheVoxel) = 1 /\ CurTsdf(TheVoxel) = 0)
        /\ (frame.pose = PoseIdentity) =>
              /\ LastObs(TheVoxel).cam_pt[3] = 0
              /\ ~LastObs(TheVoxel).valid
              /\ CurWeight(TheVoxel) = 0
              /\ SameVoxel(TheVoxel)

\* the voxel seen from a camera moved back, the depth sample equal to its depth
C7_Witness ==
    /\ FirstFrameOfSingleVoxel
    /\ frame.pose # PoseIdentity
    /\ LastObs(TheVoxel).valid
    /\ LastObs(TheVoxel).sdf = 0
    /\ CurWeight(TheVoxel) = 1
    /\ CurTsdf(TheVoxel) = 0

\* C8: a successful integrate call returns a new volume with the camera parameters
\* and config of the one it was called on, and leaves the distance, weight and
\* colour arrays of that volume exactly as they were, so the snapshot the caller
\* keeps still holds the values it had before the call.
C8_SnapshotImmutable ==
    [][(nframes' = nframes + 1 /\ outcome' = "ok") =>
         /\ heap'[volume.tsdf_volume] = heap[volume.tsdf_volume]
         /\ heap'[volume.weight_volume] = heap[volume.weight_volume]
         /\ heap'[volume.color_volume] = heap[volume.color_volume]
         /\ snapshot' = volume
         /\ volume'.tsdf_volume # volume.tsdf_volume
         /\ volume'.weight_volume # volume.weight_volume
         /\ volume'.color_volume # volume.color_volume
         /\ volume'.camera_params = volume.camera_params
         /\ volume'.config = volume.config]_vars

\* after two calls: the returned volume differs from the snapshot it came from in
\* all three arrays, and that snapshot holds observations of its own
C8_Witness ==
    /\ Succeeded
    /\ nframes = 2
    /\ \E v \in Vox : /\ OldWeight(v) > 0
                      /\ CurWeight(v) # OldWeight(v)
                      /\ CurTsdf(v) # OldTsdf(v)
                      /\ CurColor(v) # OldColor(v)

\* C9: for every valid voxel and channel the new stored colour is
\* floor((w_old * c_old + c) / (w_old + 1)), an 8-bit value between min(c_old, c)
\* and max(c_old, c), and the sum w_old * c_old + c fits the integer type that
\* holds it (int16).
C9_ColorAverage ==
    Succeeded =>
        \A v \in Vox :
            LastObs(v).valid =>
                \A i \in 1..3 :
                    LET w == OldWeight(v)
                        c0 == OldColor(v)[i]
                        c == frame.color_im.data[<<LastObs(v).pix_y, LastObs(v).pix_x>>][i]
                    IN  /\ w * c0 + c <= 32767
                        /\ CurColor(v)[i] = (w * c0 + c) \div (w + 1)
                        /\ CurColor(v)[i] >= Min(c0, c)
                        /\ CurColor(v)[i] <= (IF c0 >= c THEN c0 ELSE c)

\* validity of voxel v in the last frame, condition by condition as the
\* specification lists them
SpecValid(v) ==
    LET cfg == snapshot.config
        intr == snapshot.camera_params
        c == CamPt(cfg, v, Se3Inverse(frame.pose))
        px == NpAround(c[1] * intr.fx + intr.cx * c[3], c[3])
        py == NpAround(c[2] * intr.fy + intr.cy * c[3], c[3])
    IN  /\ c[3] > 0
        /\ px >= 0 /\ px < intr.width
        /\ py >= 0 /\ py < intr.height
        /\ frame.depth_im.data[<<py, px>>] > 0
        /\ frame.depth_im.data[<<py, px>>] - c[3] >= -cfg.truncation_distance

\* C10: a voxel is updated by a frame exactly if it is valid: its camera depth is
\* positive, its rounded pixel lies in the image, the cutoff-clamped depth sampled
\* there is positive and sdf >= -truncation_distance.  A voxel failing any of these
\* keeps its distance, weight and colour; a valid voxel gets the weight
\* min(w_old + 1, 128).
C10_FrameEffect ==
    Succeeded =>
        \A v \in Vox :
            /\ ~SpecValid(v) => SameVoxel(v)
            /\ SpecValid(v) => CurWeight(v) = Min(OldWeight(v) + 1, 128)
            /\ SpecValid(v) <=> LastObs(v).valid

\* one frame that updates a voxel and leaves alone a voxel outside the image and
\* a voxel whose sdf is below -truncation_distance; the volume already holds data
C10_Witness ==
    /\ Succeeded
    /\ \E v \in Vox : SpecValid(v) /\ OldWeight(v) = 1 /\ CurWeight(v) = 2
    /\ \E v \in Vox : /\ LastObs(v).cam_pt[3] > 0
                      /\ LastObs(v).pix_x >= snapshot.camera_params.width
                      /\ SameVoxel(v)
    /\ \E v \in Vox : /\ LastObs(v).depth_val > 0
                      /\ LastObs(v).sdf < -snapshot.config.truncation_distance
                      /\ OldWeight(v) > 0
                      /\ SameVoxel(v)

====
